---- MODULE Spec2Model ----
(***************************************************************************)
(* Bloom filter (bloom_filter_passwords.py) and HyperLogLog                *)
(* (compare_methods.py).                                                   *)
(*                                                                         *)
(* A Python str is modelled by the sequence of its UTF-8 bytes, a 32-bit   *)
(* word by the pair <<hi, lo>> of its 16-bit halves, and an unbounded      *)
(* Python int (the 128-bit MD5 value) by its binary digits, most           *)
(* significant first, without leading zeros (the digits bin() prints).     *)
(***************************************************************************)
EXTENDS Integers, Sequences, FiniteSets

(***************************************************************************)
(* Bounds of the model.                                                    *)
(***************************************************************************)
MaxSize == 4
MaxHashes == 2
MaxB == 4
MaxLen == 2

(***************************************************************************)
(* 32-bit word arithmetic on 16-bit halves.                                *)
(***************************************************************************)
Half == 2 ^ 16

\* Python evaluates an argument before the call that uses it: Bind(v, F)
\* is F(v) with v computed first.
Bind(v, F(_)) == IF v = v THEN F(v) ELSE F(v)

Pow2(n) == 2 ^ n

\* a ^ b and a & b of two w-bit numbers, w a power of two, by halves of the
\* width (the recursion is log2(w) deep); two nonzero 1-bit numbers are 1 and 1
RECURSIVE XorBits(_, _, _)
XorBits(a, b, w) ==
    IF a = 0 \/ b = 0 THEN a + b
    ELSE IF w = 1 THEN 0
    ELSE XorBits(a % Pow2(w \div 2), b % Pow2(w \div 2), w \div 2)
         + Pow2(w \div 2) * XorBits(a \div Pow2(w \div 2), b \div Pow2(w \div 2), w \div 2)

RECURSIVE AndBits(_, _, _)
AndBits(a, b, w) ==
    IF a = 0 \/ b = 0 THEN 0
    ELSE IF w = 1 THEN 1
    ELSE AndBits(a % Pow2(w \div 2), b % Pow2(w \div 2), w \div 2)
         + Pow2(w \div 2) * AndBits(a \div Pow2(w \div 2), b \div Pow2(w \div 2), w \div 2)

BitXor(a, b) == XorBits(a, b, 16)
BitAnd(a, b) == AndBits(a, b, 16)
BitOr(a, b) == a + b - BitAnd(a, b)

Xor32(x, y) == <<BitXor(x[1], y[1]), BitXor(x[2], y[2])>>
And32(x, y) == <<BitAnd(x[1], y[1]), BitAnd(x[2], y[2])>>
Or32(x, y) == <<BitOr(x[1], y[1]), BitOr(x[2], y[2])>>
Not32(x) == <<Half - 1 - x[1], Half - 1 - x[2]>>

Add32(x, y) ==
    LET lo == x[2] + y[2]
    IN  <<(x[1] + y[1] + (lo \div Half)) % Half, lo % Half>>

\* The 16 x 16 -> 32 bit product, as <<high half, low half>>, computed
\* bytewise so that no intermediate leaves the 32-bit signed range.
Mul16(x, y) ==
    LET p0 == (x % 256) * y
        p1 == (x \div 256) * y
        s  == (p1 % 256) * 256 + p0
    IN  <<(p1 \div 256) + (s \div Half), s % Half>>

\* (x * y) mod 2^32
Mul32(x, y) ==
    LET ll == Mul16(x[2], y[2])
        hl == Mul16(x[1], y[2])
        lh == Mul16(x[2], y[1])
    IN  <<(ll[1] + hl[2] + lh[2]) % Half, ll[2]>>

Swap32(x) == <<x[2], x[1]>>

\* rotate left by r, 0 <= r < 16
RotlSmall(x, r) ==
    <<((x[1] * Pow2(r)) % Half) + (x[2] \div Pow2(16 - r)),
      ((x[2] * Pow2(r)) % Half) + (x[1] \div Pow2(16 - r))>>

\* rotate left by r, 0 <= r < 32
Rotl32(x, r) == IF r < 16 THEN RotlSmall(x, r) ELSE RotlSmall(Swap32(x), r - 16)

\* logical shift right by r, 0 <= r < 32
Shr32(x, r) ==
    IF r < 16
    THEN <<x[1] \div Pow2(r), (x[2] \div Pow2(r)) + ((x[1] % Pow2(r)) * Pow2(16 - r))>>
    ELSE <<0, x[1] \div Pow2(r - 16)>>

\* the little-endian word of up to four bytes
WordLE(bs) ==
    LET byte(i) == IF i <= Len(bs) THEN bs[i] ELSE 0
    IN  <<byte(4) * 256 + byte(3), byte(2) * 256 + byte(1)>>

\* the four bytes of a word, least significant first
BytesLE(x) == <<x[2] % 256, x[2] \div 256, x[1] % 256, x[1] \div 256>>

\* a word read as a signed 32-bit integer (two's complement)
Signed32(x) == IF x[1] >= Half \div 2 THEN (x[1] - Half) * Half + x[2] ELSE x[1] * Half + x[2]

(***************************************************************************)
(* mmh3.hash(key, seed): MurmurHash3 x86_32 of the UTF-8 bytes, returned   *)
(* as a signed 32-bit integer.                                             *)
(***************************************************************************)
MurmurC1 == <<52382, 11601>>
MurmurC2 == <<7047, 13715>>
MurmurN == <<58964, 27492>>
MurmurF1 == <<34283, 51819>>
MurmurF2 == <<49842, 44597>>

MurmurScramble(k) ==
    Bind(Mul32(k, MurmurC1), LAMBDA k1 : Mul32(Rotl32(k1, 15), MurmurC2))

RECURSIVE MurmurBody(_, _, _)
MurmurBody(bs, i, h) ==
    IF i + 3 > Len(bs) THEN h
    ELSE Bind(MurmurScramble(WordLE(SubSeq(bs, i, i + 3))), LAMBDA k :
         Bind(Rotl32(Xor32(h, k), 13), LAMBDA h1 :
         Bind(Add32(Mul32(h1, <<0, 5>>), MurmurN), LAMBDA h2 :
         MurmurBody(bs, i + 4, h2))))

MurmurTail(bs, h) ==
    LET n == Len(bs) % 4
    IN  IF n = 0 THEN h
        ELSE Bind(MurmurScramble(WordLE(SubSeq(bs, Len(bs) - n + 1, Len(bs)))),
                  LAMBDA k : Xor32(h, k))

MurmurFmix(h) ==
    Bind(Mul32(Xor32(h, Shr32(h, 16)), MurmurF1), LAMBDA h1 :
    Bind(Mul32(Xor32(h1, Shr32(h1, 13)), MurmurF2), LAMBDA h2 :
    Xor32(h2, Shr32(h2, 16))))

mmh3_hash(bs, seed) ==
    Bind(MurmurBody(bs, 1, <<0, seed>>), LAMBDA body :
    Bind(MurmurTail(bs, body), LAMBDA h :
    Bind(Xor32(h, <<0, Len(bs)>>), LAMBDA hl :
    Bind(MurmurFmix(hl), LAMBDA mixed : Signed32(mixed)))))

(***************************************************************************)
(* hashlib.md5(bytes).hexdigest() and int(hex, 16).                        *)
(***************************************************************************)
MD5K ==
    << <<55146, 42104>>, <<59591, 46934>>, <<9248, 28891>>, <<49597, 52974>>,
       <<62844, 4015>>, <<18311, 50730>>, <<43056, 17939>>, <<64838, 38145>>,
       <<27008, 39128>>, <<35652, 63407>>, <<65535, 23473>>, <<35164, 55230>>,
       <<27536, 4386>>, <<64920, 29075>>, <<42617, 17294>>, <<18868, 2081>>,
       <<63006, 9570>>, <<49216, 45888>>, <<9822, 23121>>, <<59830, 51114>>,
       <<54831, 4189>>, <<580, 5203>>, <<55457, 59009>>, <<59347, 64456>>,
       <<8673, 52710>>, <<49975, 2006>>, <<62677, 3463>>, <<17754, 5357>>,
       <<43491, 59653>>, <<64751, 41976>>, <<26479, 729>>, <<36138, 19594>>,
       <<65530, 14658>>, <<34673, 63105>>, <<28061, 24866>>, <<64997, 14348>>,
       <<42174, 59972>>, <<19422, 53161>>, <<63163, 19296>>, <<48831, 48240>>,
       <<10395, 32454>>, <<60065, 10234>>, <<54511, 12421>>, <<1160, 7429>>,
       <<55764, 53305>>, <<59099, 39397>>, <<8098, 31992>>, <<50348, 22117>>,
       <<62505, 8772>>, <<17194, 65431>>, <<43924, 9127>>, <<64659, 41017>>,
       <<25947, 22979>>, <<36620, 52370>>, <<65519, 62589>>, <<34180, 24017>>,
       <<28584, 32335>>, <<65068, 59104>>, <<41729, 17172>>, <<19976, 4513>>,
       <<63315, 32386>>, <<48442, 62005>>, <<10967, 53947>>, <<60294, 54161>> >>

MD5S ==
    << <<7, 12, 17, 22>>, <<5, 9, 14, 20>>, <<4, 11, 16, 23>>, <<6, 10, 15, 21>> >>

MD5Init == << <<26437, 8961>>, <<61389, 43913>>, <<39098, 56574>>, <<4146, 21622>> >>

Zeros(n) == [i \in 1 .. n |-> 0]

\* the message, 0x80, zeros up to 56 mod 64, and the bit length in 64 bits,
\* little-endian (the model's strings are far shorter than 2^13 bytes)
MD5Pad(bs) ==
    LET n    == Len(bs)
        fill == (55 - n) % 64
        bits == n * 8
    IN  bs \o <<128>> \o Zeros(fill)
           \o <<bits % 256, (bits \div 256) % 256, bits \div Half>> \o Zeros(5)

MD5F(i, B, C, D) ==
    IF i < 16 THEN Or32(And32(B, C), And32(Not32(B), D))
    ELSE IF i < 32 THEN Or32(And32(D, B), And32(Not32(D), C))
    ELSE IF i < 48 THEN Xor32(B, Xor32(C, D))
    ELSE Xor32(C, Or32(B, Not32(D)))

MD5G(i) ==
    IF i < 16 THEN i
    ELSE IF i < 32 THEN (5 * i + 1) % 16
    ELSE IF i < 48 THEN (3 * i + 5) % 16
    ELSE (7 * i) % 16

\* step i of the 64 on one 64-byte block; st = <<A, B, C, D>>
MD5Step(blk, i, st) ==
    LET g == MD5G(i)
        M == WordLE(SubSeq(blk, 4 * g + 1, 4 * g + 4))
        s == MD5S[(i \div 16) + 1][(i % 4) + 1]
    IN  Bind(MD5F(i, st[2], st[3], st[4]), LAMBDA f :
        Bind(Add32(Add32(f, st[1]), Add32(MD5K[i + 1], M)), LAMBDA F :
        Bind(Add32(st[2], Rotl32(F, s)), LAMBDA B :
        <<st[4], B, st[2], st[3]>>)))

\* steps lo .. hi - 1 in order, by halves of the range
RECURSIVE MD5Steps(_, _, _, _)
MD5Steps(blk, lo, hi, st) ==
    IF hi = lo + 1 THEN MD5Step(blk, lo, st)
    ELSE Bind(MD5Steps(blk, lo, (lo + hi) \div 2, st),
              LAMBDA half : MD5Steps(blk, (lo + hi) \div 2, hi, half))

RECURSIVE MD5Blocks(_, _, _)
MD5Blocks(msg, off, h) ==
    IF off >= Len(msg) THEN h
    ELSE Bind(SubSeq(msg, off + 1, off + 64), LAMBDA blk :
         Bind(MD5Steps(blk, 0, 64, h), LAMBDA st :
         Bind(<<Add32(h[1], st[1]), Add32(h[2], st[2]),
                Add32(h[3], st[3]), Add32(h[4], st[4])>>, LAMBDA nxt :
         MD5Blocks(msg, off + 64, nxt))))

\* the 16 digest bytes
md5_digest(bs) ==
    Bind(MD5Pad(bs), LAMBDA msg :
    Bind(MD5Blocks(msg, 0, MD5Init), LAMBDA h :
    BytesLE(h[1]) \o BytesLE(h[2]) \o BytesLE(h[3]) \o BytesLE(h[4])))

\* hexdigest(): two hex digits per byte, high nibble first (digit values)
hexdigest(bytes) ==
    [n \in 1 .. 2 * Len(bytes) |->
        IF n % 2 = 1 THEN bytes[(n + 1) \div 2] \div 16 ELSE bytes[n \div 2] % 16]

\* the digits without their leading zeros
StripZeros(ds) ==
    LET nz == { n \in 1 .. Len(ds) : ds[n] # 0 }
    IN  IF nz = {} THEN << >>
        ELSE SubSeq(ds, CHOOSE n \in nz : \A k \in nz : n <= k, Len(ds))

\* the four binary digits of each hex digit
HexBits(hex) ==
    [n \in 1 .. 4 * Len(hex) |->
        (hex[(n + 3) \div 4] \div Pow2(3 - ((n - 1) % 4))) % 2]

\* int(text, 16): the integer as its binary digits without leading zeros
int16(hex) == Bind(HexBits(hex), LAMBDA bits : StripZeros(bits))

(***************************************************************************)
(* Python values.  A value carries its type; a str carries its bytes.      *)
(***************************************************************************)
Str(bs) == [type |-> "str", val |-> bs]
NoneValue == [type |-> "NoneType", val |-> << >>]
EmptyList == [type |-> "list", val |-> << >>]

\* isinstance(v, str)
IsStr(v) == v.type = "str"
\* bool(v) of the values above: None, "" and [] are falsy
Truthy(v) == v.val # << >>
\* hash(v) is defined: a list is unhashable and cannot be a dict key
Hashable(v) == v.type # "list"

\* the strings handed to BloomFilter.add / check: "", "a", "b", "abcde"
Items == { << >>, <<97>>, <<98>>, <<97, 98, 99, 100, 101>> }
\* the strings handed to HyperLogLog.add: "a" .. "f"
HllItems == { <<97>>, <<98>>, <<99>>, <<100>>, <<101>>, <<102>> }
\* the entries of a passwords list: "a", "b", "", None, []
Passwords == { Str(<<97>>), Str(<<98>>), Str(<< >>), NoneValue, EmptyList }

RECURSIVE SeqsUpTo(_, _)
SeqsUpTo(S, n) ==
    IF n = 0 THEN { << >> }
    ELSE LET shorter == SeqsUpTo(S, n - 1)
         IN  shorter \cup { Append(q, x) : q \in { r \in shorter : Len(r) = n - 1 }, x \in S }

PasswordLists == SeqsUpTo(Passwords, MaxLen)

\* the three status strings of check_password_uniqueness (Ukrainian in the
\* source, transliterated here: TLA+ strings are ASCII)
INVALID == "Nekorektnyi parol"
USED == "vzhe vykorystanyi"
UNIQUE == "unikalnyi"

(***************************************************************************)
(* class BloomFilter                                                       *)
(***************************************************************************)
NoBloom == [size |-> 0, num_hashes |-> 0, bit_array |-> << >>]

\* __init__: bitarray(size); setall(0).  No check of size or num_hashes.
BloomFilter_init(size, num_hashes) ==
    [size |-> size, num_hashes |-> num_hashes, bit_array |-> [i \in 0 .. size - 1 |-> 0]]

\* mmh3.hash(item, i) for the strings and seeds of the model, computed once:
\* the triples <<item, i, mmh3.hash(item, i)>>
Mmh3Table == { <<bs, i, mmh3_hash(bs, i)>> : bs \in Items, i \in 0 .. MaxHashes }

mmh3(item, i) == (CHOOSE t \in Mmh3Table : t[1] = item /\ t[2] = i)[3]

\* _hashes raises ZeroDivisionError at its first value when size = 0
HashesRaise(self) == self.num_hashes > 0 /\ self.size = 0

\* _hashes: mmh3.hash(item, i) % self.size for i in range(num_hashes)
_hashes(self, item) ==
    [i \in 1 .. self.num_hashes |-> mmh3(item, i - 1) % self.size]

\* the loop of add with "bit_array[h] ^= 1": a probed bit that is set is cleared
RECURSIVE SetBits_toggle(_, _)
SetBits_toggle(bits, hs) ==
    IF hs = << >> THEN bits
    ELSE SetBits_toggle([bits EXCEPT ![Head(hs)] = 1 - @], Tail(hs))

\* the loop of add: bit_array[hash_value] = 1 for each hash value
RECURSIVE SetBits(_, _)
SetBits(bits, hs) ==
    IF hs = << >> THEN bits
    ELSE SetBits([bits EXCEPT ![Head(hs)] = 1], Tail(hs))

\* add with its loop over range(num_hashes - 1): the last probe is not set
BloomFilter_add_short(self, item) ==
    IF HashesRaise(self) THEN self
    ELSE [self EXCEPT !.bit_array =
              SetBits(self.bit_array, SubSeq(_hashes(self, item), 1, self.num_hashes - 1))]

\* add: the filter after add(item) (unchanged when _hashes raises)
BloomFilter_add(self, item) ==
    IF HashesRaise(self) THEN self
    ELSE [self EXCEPT !.bit_array = SetBits(self.bit_array, _hashes(self, item))]

\* check: all(bit_array[h] for h in _hashes(item)), when _hashes does not raise
BloomFilter_check(self, item) ==
    \A i \in 1 .. self.num_hashes : self.bit_array[_hashes(self, item)[i]] = 1

(***************************************************************************)
(* class HyperLogLog                                                       *)
(***************************************************************************)
NoHll == [b |-> 0, m |-> 0, buckets |-> << >>]

\* __init__: m = 1 << b, buckets = [0] * m.  No check of b.
HyperLogLog_init(b) ==
    [b |-> b, m |-> Pow2(b), buckets |-> [j \in 0 .. Pow2(b) - 1 |-> 0]]

\* _hash: int(hashlib.md5(value.encode('utf8')).hexdigest(), 16)
_hash(value) ==
    Bind(md5_digest(value), LAMBDA digest :
    Bind(hexdigest(digest), LAMBDA hex : int16(hex)))

\* _hash(value) for the strings of the model, computed once: the pairs
\* <<value, _hash(value)>>
Md5Table == { <<v, _hash(v)>> : v \in HllItems }

md5int(value) == (CHOOSE t \in Md5Table : t[1] = value)[2]

\* x & n for an unbounded x >= 0 and a small n >= 0
RECURSIVE BigAnd(_, _)
BigAnd(x, n) ==
    IF x = << >> \/ n = 0 THEN 0
    ELSE (x[Len(x)] * (n % 2)) + 2 * BigAnd(SubSeq(x, 1, Len(x) - 1), n \div 2)

\* x >> b
BigShr(x, b) == SubSeq(x, 1, Len(x) - b)

\* w.bit_length()
bit_length(w) == Len(w)

\* bin(w) for w >= 0, as its characters
bin(w) ==
    <<"0", "b">> \o (IF w = << >> THEN <<"0">>
                     ELSE [i \in 1 .. Len(w) |-> IF w[i] = 1 THEN "1" ELSE "0"])

\* text.lstrip(chars)
RECURSIVE lstrip(_, _)
lstrip(text, chars) ==
    IF text # << >> /\ Head(text) \in chars THEN lstrip(Tail(text), chars) ELSE text

\* _rho: (w.bit_length() - len(bin(w).lstrip('-0b'))) + 1
_rho(w) == (bit_length(w) - Len(lstrip(bin(w), {"-", "0", "b"}))) + 1

Max(a, b) == IF a >= b THEN a ELSE b

\* add with "buckets[j] += _rho(w)" in place of the max
HyperLogLog_add_sum(self, value) ==
    LET x == md5int(value)
        j == BigAnd(x, self.m - 1)
        w == BigShr(x, self.b)
    IN  [self EXCEPT !.buckets[j] = @ + _rho(w)]

\* add: j = x & (m - 1); w = x >> b; buckets[j] = max(buckets[j], _rho(w))
HyperLogLog_add(self, value) ==
    LET x == md5int(value)
        j == BigAnd(x, self.m - 1)
        w == BigShr(x, self.b)
    IN  [self EXCEPT !.buckets[j] = Max(@, _rho(w))]

(***************************************************************************)
(* count() computes in floating point; the model computes the same         *)
(* expression exactly, on fractions <<numerator, denominator>> in lowest   *)
(* terms.  The claims compare the estimate with 0, 3 and 7 only, at        *)
(* distances far above the rounding error of a double.                     *)
(***************************************************************************)
RECURSIVE Gcd(_, _)
Gcd(a, b) == IF b = 0 THEN a ELSE Gcd(b, a % b)

Frac(n, d) == LET g == Gcd(n, d) IN <<n \div g, d \div g>>
FracAdd(x, y) == Frac(x[1] * y[2] + y[1] * x[2], x[2] * y[2])
FracMul(x, y) == Frac(x[1] * y[1], x[2] * y[2])
FracDiv(x, y) == Frac(x[1] * y[2], x[2] * y[1])
FracLeq(x, y) == x[1] * y[2] <= y[1] * x[2]

\* sum(2 ** -bucket for bucket in buckets[lo : hi]), lo < hi, by halves of
\* the range (the sum of fractions is exact, so its order does not matter)
RECURSIVE SumPow(_, _, _)
SumPow(buckets, lo, hi) ==
    IF hi = lo + 1 THEN <<1, Pow2(buckets[lo])>>
    ELSE LET mid == (lo + hi) \div 2
         IN  FracAdd(SumPow(buckets, lo, mid), SumPow(buckets, mid, hi))

\* count: E = (0.7213 / (1 + 1.079 / m)) * (m ** 2) / Z
HyperLogLog_count(self) ==
    LET Z == SumPow(self.buckets, 0, self.m)
        alpha == FracDiv(Frac(7213, 10000),
                         FracAdd(<<1, 1>>, FracDiv(Frac(1079, 1000), <<self.m, 1>>)))
    IN  FracDiv(FracMul(alpha, <<self.m * self.m, 1>>), Z)

(***************************************************************************)
(* dict: the pairs <<key, value>> in insertion order.                      *)
(***************************************************************************)
DictKeys(d) == { d[n][1] : n \in 1 .. Len(d) }
\* d[k], for a key of d
DictGet(d, k) == d[CHOOSE n \in 1 .. Len(d) : d[n][1] = k][2]
\* d[k] = v
DictSet(d, k, v) ==
    IF k \in DictKeys(d)
    THEN [n \in 1 .. Len(d) |-> IF d[n][1] = k THEN <<k, v>> ELSE d[n]]
    ELSE Append(d, <<k, v>>)

(***************************************************************************)
(* check_password_uniqueness: one iteration of its loop, on the filter and *)
(* the results so far.  calls: the filter methods the iteration invoked;   *)
(* exc: the exception that ends the call, or "none".                       *)
(***************************************************************************)
\* the loop body without "bloom_filter.add(password)" in its else branch
LoopBody_noadd(self, results, password) ==
    IF ~IsStr(password) \/ ~Truthy(password)
    THEN IF Hashable(password)
         THEN [bf |-> self, results |-> DictSet(results, password, INVALID),
               calls |-> << >>, exc |-> "none"]
         ELSE [bf |-> self, results |-> results, calls |-> << >>, exc |-> "TypeError"]
    ELSE IF HashesRaise(self)
         THEN [bf |-> self, results |-> results, calls |-> <<"check">>,
               exc |-> "ZeroDivisionError"]
    ELSE IF BloomFilter_check(self, password.val)
         THEN [bf |-> self, results |-> DictSet(results, password, USED),
               calls |-> <<"check">>, exc |-> "none"]
         ELSE [bf |-> self, results |-> DictSet(results, password, UNIQUE),
               calls |-> <<"check">>, exc |-> "none"]

LoopBody(self, results, password) ==
    IF ~IsStr(password) \/ ~Truthy(password)
    THEN IF Hashable(password)
         THEN [bf |-> self, results |-> DictSet(results, password, INVALID),
               calls |-> << >>, exc |-> "none"]
         ELSE [bf |-> self, results |-> results, calls |-> << >>, exc |-> "TypeError"]
    ELSE IF HashesRaise(self)
         THEN [bf |-> self, results |-> results, calls |-> <<"check">>,
               exc |-> "ZeroDivisionError"]
    ELSE IF BloomFilter_check(self, password.val)
         THEN [bf |-> self, results |-> DictSet(results, password, USED),
               calls |-> <<"check">>, exc |-> "none"]
         ELSE [bf |-> BloomFilter_add(self, password.val),
               results |-> DictSet(results, password, UNIQUE),
               calls |-> <<"check", "add">>, exc |-> "none"]

(***************************************************************************)
(* The state.                                                              *)
(*   prog    which object exists: "start" (none yet), "bloom", "hll"       *)
(*   bf      the BloomFilter                                               *)
(*   hll     the HyperLogLog                                               *)
(*   cpu     the call of check_password_uniqueness, running (active) or    *)
(*           the last one made; before: the bit_array at its start         *)
(*   ret     what the last call returned or raised                         *)
(*   last    the last call made by the caller; rep: it repeats the call    *)
(*           before it;  added: the strings add() has completed on;        *)
(*   calls   the filter methods the last loop iteration invoked            *)
(***************************************************************************)
VARIABLES prog, bf, hll, cpu, ret, last, rep, added, calls

vars == <<prog, bf, hll, cpu, ret, last, rep, added, calls>>

Idle == [active |-> FALSE, passwords |-> << >>, i |-> 0, results |-> << >>, before |-> << >>]
NoRet == [exc |-> "none", bool |-> FALSE, est |-> <<0, 1>>, results |-> << >>]
Call(op, item, passwords) == [op |-> op, item |-> item, passwords |-> passwords]

Init ==
    /\ prog = "start"
    /\ bf = NoBloom
    /\ hll = NoHll
    /\ cpu = Idle
    /\ ret = NoRet
    /\ last = Call("none", << >>, << >>)
    /\ rep = FALSE
    /\ added = {}
    /\ calls = << >>

\* bloom = BloomFilter(size, num_hashes)
NewBloomFilter(size, num_hashes) ==
    /\ prog = "start"
    /\ prog' = "bloom"
    /\ bf' = BloomFilter_init(size, num_hashes)
    /\ last' = Call("BloomFilter", << >>, << >>)
    /\ ret' = NoRet
    /\ rep' = FALSE
    /\ UNCHANGED <<hll, cpu, added, calls>>

\* bloom.add(item)
Add(item) ==
    /\ prog = "bloom" /\ ~cpu.active
    /\ bf' = BloomFilter_add(bf, item)
    /\ ret' = [NoRet EXCEPT !.exc = IF HashesRaise(bf) THEN "ZeroDivisionError" ELSE "none"]
    /\ added' = IF HashesRaise(bf) THEN added ELSE added \cup {item}
    /\ last' = Call("add", item, << >>)
    /\ rep' = (last = Call("add", item, << >>))
    /\ cpu' = Idle
    /\ calls' = << >>
    /\ UNCHANGED <<prog, hll>>

\* bloom.check(item)
Check(item) ==
    /\ prog = "bloom" /\ ~cpu.active
    /\ ret' = IF HashesRaise(bf) THEN [NoRet EXCEPT !.exc = "ZeroDivisionError"]
              ELSE [NoRet EXCEPT !.bool = BloomFilter_check(bf, item)]
    /\ last' = Call("check", item, << >>)
    /\ rep' = (last = Call("check", item, << >>))
    /\ cpu' = Idle
    /\ calls' = << >>
    /\ UNCHANGED <<prog, bf, hll, added>>

\* check_password_uniqueness(bloom, passwords): results = {}
Start(passwords) ==
    /\ prog = "bloom" /\ ~cpu.active
    /\ cpu' = [active |-> TRUE, passwords |-> passwords, i |-> 1, results |-> << >>,
               before |-> bf.bit_array]
    /\ last' = Call("check_password_uniqueness", << >>, passwords)
    /\ ret' = NoRet
    /\ rep' = FALSE
    /\ calls' = << >>
    /\ UNCHANGED <<prog, bf, hll, added>>

\* one iteration of "for password in passwords"
Step ==
    /\ cpu.active /\ cpu.i <= Len(cpu.passwords)
    /\ LET password == cpu.passwords[cpu.i]
           r == LoopBody(bf, cpu.results, password)
       IN  /\ bf' = r.bf
           /\ calls' = r.calls
           /\ added' = IF r.calls = <<"check", "add">>
                       THEN added \cup {password.val} ELSE added
           /\ IF r.exc = "none"
              THEN /\ cpu' = [cpu EXCEPT !.i = @ + 1, !.results = r.results]
                   /\ ret' = ret
              ELSE /\ cpu' = [cpu EXCEPT !.active = FALSE]
                   /\ ret' = [NoRet EXCEPT !.exc = r.exc]
    /\ UNCHANGED <<prog, hll, last, rep>>

\* return results
Return ==
    /\ cpu.active /\ cpu.i > Len(cpu.passwords)
    /\ ret' = [NoRet EXCEPT !.results = cpu.results]
    /\ cpu' = [cpu EXCEPT !.active = FALSE]
    /\ UNCHANGED <<prog, bf, hll, last, rep, added, calls>>

\* hll = HyperLogLog(b)
NewHyperLogLog(b) ==
    /\ prog = "start"
    /\ prog' = "hll"
    /\ hll' = HyperLogLog_init(b)
    /\ last' = Call("HyperLogLog", << >>, << >>)
    /\ ret' = NoRet
    /\ rep' = FALSE
    /\ UNCHANGED <<bf, cpu, added, calls>>

\* hll.add(value)
HllAdd(value) ==
    /\ prog = "hll"
    /\ hll' = HyperLogLog_add(hll, value)
    /\ added' = added \cup {value}
    /\ ret' = NoRet
    /\ last' = Call("add", value, << >>)
    /\ rep' = (last = Call("add", value, << >>))
    /\ UNCHANGED <<prog, bf, cpu, calls>>

\* hll.count()
HllCount ==
    /\ prog = "hll"
    /\ ret' = [NoRet EXCEPT !.est = HyperLogLog_count(hll)]
    /\ last' = Call("count", << >>, << >>)
    /\ rep' = (last = Call("count", << >>, << >>))
    /\ UNCHANGED <<prog, bf, hll, cpu, added, calls>>

Next ==
    \/ \E size \in 0 .. MaxSize, num_hashes \in 0 .. MaxHashes : NewBloomFilter(size, num_hashes)
    \/ \E item \in Items : Add(item)
    \/ \E item \in Items : Check(item)
    \/ \E passwords \in PasswordLists : Start(passwords)
    \/ Step
    \/ Return
    \/ \E b \in 0 .. MaxB : NewHyperLogLog(b)
    \/ \E value \in HllItems : HllAdd(value)
    \/ HllCount

Spec == Init /\ [][Next]_vars

(***************************************************************************)
(* Properties.                                                             *)
(***************************************************************************)
\* the bit width of the hash _hash returns (MD5)
HashWidth == 128

SomeBitSet == \E i \in DOMAIN bf.bit_array : bf.bit_array[i] = 1
SomeBitClear == \E i \in DOMAIN bf.bit_array : bf.bit_array[i] = 0

\* the entry a loop iteration is about to process
Entry == cpu.passwords[cpu.i]
AtEntry == cpu.active /\ cpu.i <= Len(cpu.passwords)
ValidPassword(p) == IsStr(p) /\ Truthy(p)
Occurrences(q, p) == Cardinality({ n \in 1 .. Len(q) : q[n] = p })
Returned == last.op = "check_password_uniqueness" /\ ~cpu.active /\ ret.exc = "none"

\* C1: no false negatives.  In a filter built with size > 0 and
\* num_hashes > 0, check(s) is True for every string s that add has been
\* called on, in every later state, whatever else was added; and a call of
\* check on such a string returned True.
NoFalseNegatives ==
    (prog = "bloom" /\ bf.size > 0 /\ bf.num_hashes > 0) =>
        /\ \A s \in added : BloomFilter_check(bf, s)
        /\ (last.op = "check" /\ last.item \in added) => (ret.exc = "none" /\ ret.bool)

NoFalseNegativesWitness ==
    /\ prog = "bloom" /\ bf.size > 0 /\ bf.num_hashes > 0
    /\ last.op = "check" /\ last.item \in added /\ ret.bool
    /\ Cardinality(added) >= 2
    /\ SomeBitClear

\* C2: no filter exists with size = 0 or num_hashes = 0, and no estimator
\* with b = 0: the constructor raised and created nothing.
InvalidConstructionRejected ==
    /\ prog = "bloom" => (bf.size > 0 /\ bf.num_hashes > 0)
    /\ prog = "hll" => hll.b > 0

\* the reference rank of w in its width-bit field: 1 + its leading zero
\* bits, width + 1 when w = 0
RefRank(w, width) == (width - bit_length(w)) + 1

\* C3: add(value) changes exactly bucket j = x & (m - 1), to
\* max(old, rank(w)) with w = x >> b and rank the reference rank in the
\* (W - b)-bit field.
AddUsesReferenceRank ==
    [][(prog = "hll" /\ last'.op = "add") =>
          LET x == md5int(last'.item)
              j == BigAnd(x, hll.m - 1)
              w == BigShr(x, hll.b)
          IN  hll'.buckets =
                  [hll.buckets EXCEPT ![j] = Max(@, RefRank(w, HashWidth - hll.b))]]_vars

\* C4: count() on an estimator that add was never called on returns 0 and
\* does not raise.
ZeroStateEstimate ==
    (prog = "hll" /\ last.op = "count" /\ added = {}) =>
        (ret.exc = "none" /\ ret.est[1] = 0)

\* C5: no step clears a bit of bit_array, and no step lowers a bucket.
Monotone ==
    [][/\ \A i \in DOMAIN bf.bit_array : bf.bit_array[i] = 1 => bf'.bit_array[i] = 1
       /\ \A j \in DOMAIN hll.buckets : hll'.buckets[j] >= hll.buckets[j]]_vars

MonotoneWitness ==
    /\ prog = "bloom" /\ Returned
    /\ Cardinality(added) >= 2
    /\ SomeBitSet /\ SomeBitClear
    /\ cpu.before # bf.bit_array

\* C6: add(s) right after add(s) changes neither bit_array nor buckets.
AddIdempotent ==
    [][(last'.op = "add" /\ rep') =>
          (bf'.bit_array = bf.bit_array /\ hll'.buckets = hll.buckets)]_vars

AddIdempotentWitness ==
    /\ last.op = "add" /\ rep
    /\ prog = "hll" /\ hll.b > 0
    /\ Cardinality(added) >= 2
    /\ \E j \in DOMAIN hll.buckets : hll.buckets[j] > 0

\* C7: with b = 4, after add on exactly 5 distinct values, count() returns
\* an estimate in [3, 7].
SmallRangeEstimate ==
    (prog = "hll" /\ hll.b = 4 /\ last.op = "count" /\ Cardinality(added) = 5) =>
        (FracLeq(<<3, 1>>, ret.est) /\ FracLeq(ret.est, <<7, 1>>))

\* C8: check(value) returns True exactly when all its probed bits are set,
\* and returns False on a filter that add was never completed on.
CheckContract ==
    (prog = "bloom" /\ last.op = "check") =>
        /\ ret.exc = "none"
        /\ ret.bool = (\A i \in 1 .. bf.num_hashes :
                          bf.bit_array[mmh3(last.item, i - 1) % bf.size] = 1)
        /\ added = {} => ret.bool = FALSE

\* C9: a loop iteration on an entry that is not a str or is empty reports
\* the entry as INVALID in results, invokes neither check nor add, and
\* leaves bit_array unchanged.
InvalidEntryRejected ==
    [][(AtEntry /\ ~ValidPassword(Entry)) =>
          /\ Entry \in DictKeys(cpu'.results)
          /\ DictGet(cpu'.results, Entry) = INVALID
          /\ calls' = << >>
          /\ bf'.bit_array = bf.bit_array]_vars

\* C10: a loop iteration on a valid password calls check, and calls add
\* exactly when check found it absent; when the call has returned, check is
\* True for every valid password of the list, and a valid password that
\* occurs more than once is reported USED.
WorkflowAddsAbsent ==
    /\ [][(AtEntry /\ ValidPassword(Entry) /\ ~HashesRaise(bf)) =>
             IF BloomFilter_check(bf, Entry.val)
             THEN calls' = <<"check">> /\ bf' = bf
             ELSE calls' = <<"check", "add">> /\ bf' = BloomFilter_add(bf, Entry.val)]_vars
    /\ [](Returned =>
             \A n \in 1 .. Len(last.passwords) :
                 LET p == last.passwords[n]
                 IN  ValidPassword(p) =>
                         /\ ~HashesRaise(bf) /\ BloomFilter_check(bf, p.val)
                         /\ Occurrences(last.passwords, p) > 1 =>
                                DictGet(ret.results, p) = USED)

\* a returned call whose list holds a valid password twice that the filter
\* did not hold before the call
WorkflowAddsAbsentWitness ==
    /\ Returned /\ bf.size > 0 /\ bf.num_hashes > 0
    /\ \E n \in 1 .. Len(last.passwords) :
           LET p == last.passwords[n]
           IN  /\ ValidPassword(p)
               /\ Occurrences(last.passwords, p) > 1
               /\ ~BloomFilter_check([bf EXCEPT !.bit_array = cpu.before], p.val)
               /\ DictGet(ret.results, p) = USED

====
